---- MODULE Spec2Model ----
(***************************************************************************)
(* Post-detection reconstruction pipeline of the sheet-music transcriber:  *)
(* staff grouping, pitch from staff position, accidental binding, measure  *)
(* segmentation, MIDI encoding and the analyze endpoint.                   *)
(*                                                                         *)
(* Conventions.                                                            *)
(*  - A Python str is a sequence of one-character strings: "E4" is         *)
(*    <<"E", "4">>.                                                        *)
(*  - Durations and times are counted in sixty-fourth notes (1/16 beat),   *)
(*    the smallest value of SYMBOL_DURATIONS, so that every duration of    *)
(*    the table is an integer: 1.0 beat is 16.                             *)
(*  - A box is <<x, y, width, height>>; box[1] is Python's box[0].         *)
(*  - Each specification below drives one part of the program; the        *)
(*    variables it does not use stay at their idle values.                 *)
(***************************************************************************)
EXTENDS Integers, Sequences, FiniteSets, TLC

VARIABLES
    pc,             \* position of the running function / handler
    symbols,        \* the symbol list handed to a stage
    measures,       \* result of group_symbols_by_measure
    returned,       \* list returned by apply_accidentals_to_notes
    midi,           \* notes added to the MIDIFile by generate_midi_file
    pitch,          \* argument of pitch_to_midi_number
    midi_number,    \* result of pitch_to_midi_number
    lines,          \* argument of group_staff_lines (None or segments)
    horizontal_lines, \* sorted midpoints inside group_staff_lines
    i,              \* scan index of group_staff_lines
    staff_systems,  \* accepted staff systems of group_staff_lines
    staff_lines,    \* staff handed to calculate_pitch_from_staff_position
    y_pos,          \* the two vertical positions compared (doubled)
    pos_pitch,      \* the two results of calculate_pitch_from_staff_position
    req,            \* per request: position and content hash
    lru,            \* keys memoised by lru_cache around get_cached_analysis
    analyses,       \* per hash: number of analyze_sheet_music runs started
    run,            \* what one analyze_sheet_music run meets: image, detectors, disk
    staff_groups,   \* the staff systems analyze_sheet_music works with
    result          \* the dict analyze_sheet_music returns

symVars   == <<symbols, measures, returned, midi>>
pitchVars == <<pitch, midi_number>>
staffVars == <<lines, horizontal_lines, i, staff_systems>>
posVars   == <<staff_lines, y_pos, pos_pitch>>
reqVars   == <<req, lru, analyses>>
runVars   == <<run, staff_groups, result>>
vars      == <<pc, symVars, pitchVars, staffVars, posVars, reqVars, runVars>>

None == "None"

IdleSym   == symbols = <<>> /\ measures = None /\ returned = None /\ midi = None
IdlePitch == pitch = <<>> /\ midi_number = None
IdleStaff ==
    /\ lines = [is_none |-> TRUE, segments |-> <<>>]
    /\ horizontal_lines = <<>> /\ i = 0 /\ staff_systems = <<>>
IdlePos   == staff_lines = <<>> /\ y_pos = <<0, 0>> /\ pos_pitch = None
IdleReq   == req = <<>> /\ lru = <<>> /\ analyses = <<>>
IdleRun   == run = None /\ staff_groups = <<>> /\ result = None

(***************************************************************************)
(* Generic helpers.                                                        *)
(***************************************************************************)
Abs(n) == IF n < 0 THEN -n ELSE n

\* Python's int() on a quotient of non-zero denominator: truncation toward 0.
TruncDiv(a, b) ==
    IF (a >= 0) = (b > 0) THEN Abs(a) \div Abs(b) ELSE -(Abs(a) \div Abs(b))

RECURSIVE Concat(_)
Concat(ss) == IF ss = <<>> THEN <<>> ELSE Head(ss) \o Concat(Tail(ss))

RECURSIVE SeqSum(_)
SeqSum(s) == IF s = <<>> THEN 0 ELSE Head(s) + SeqSum(Tail(s))

\* All sequences over S of length 0..n.
SeqsUpTo(S, n) == UNION {[1..k -> S] : k \in 0..n}

Front(s) == SubSeq(s, 1, Len(s) - 1)
Last(s)  == s[Len(s)]

(***************************************************************************)
(* Symbols (app.py MUSICAL_SYMBOL_CLASSES, SYMBOL_DURATIONS).              *)
(***************************************************************************)
BoxW == 20
BoxH == 25

NoteClasses ==
    {"whole_note", "half_note", "quarter_note", "eighth_note", "sixteenth_note",
     "thirty_second_note", "sixty_fourth_note", "grace_note"}
RestClasses ==
    {"whole_rest", "half_rest", "quarter_rest", "eighth_rest", "sixteenth_rest",
     "thirty_second_rest", "sixty_fourth_rest"}

\* 'note' in symbol['class']: of the 47 class names exactly these contain "note".
HasNote(class) == class \in NoteClasses
\* 'bar_line' in s['class']: exactly bar_line and double_bar_line contain it.
HasBarLine(class) == class \in {"bar_line", "double_bar_line"}

\* SYMBOL_DURATIONS.get(symbol_class, 1.0), in sixty-fourths of a whole note.
SYMBOL_DURATIONS(class) ==
    CASE class \in {"whole_note", "whole_rest"} -> 64
      [] class \in {"half_note", "half_rest"} -> 32
      [] class \in {"quarter_note", "quarter_rest"} -> 16
      [] class \in {"eighth_note", "eighth_rest"} -> 8
      [] class \in {"sixteenth_note", "sixteenth_rest"} -> 4
      [] class \in {"thirty_second_note", "thirty_second_rest"} -> 2
      [] class \in {"sixty_fourth_note", "sixty_fourth_rest"} -> 1
      [] OTHER -> 16

\* The symbol dict built by process_detections_enhanced; "accidental" is the key
\* apply_accidentals_to_notes adds, "none" while the key is absent.
Symbol(class, x, y, p) ==
    [class |-> class, box |-> <<x, y, BoxW, BoxH>>, pitch |-> p,
     duration |-> SYMBOL_DURATIONS(class), accidental |-> "none"]

C4Str == <<"C", "4">>

(***************************************************************************)
(* group_symbols_by_measure (app.py).                                      *)
(***************************************************************************)
\* sorted(symbols, key=lambda s: s['box'][0]): stable, ascending x.
InsertByX(sorted, s) ==
    LET k == Cardinality({j \in 1..Len(sorted) : sorted[j].box[1] <= s.box[1]})
    IN  SubSeq(sorted, 1, k) \o <<s>> \o SubSeq(sorted, k + 1, Len(sorted))

RECURSIVE SortedByX(_)
SortedByX(ss) ==
    IF ss = <<>> THEN <<>> ELSE InsertByX(SortedByX(Front(ss)), Last(ss))

IsBarLineClass(s) == s.class \in {"bar_line", "double_bar_line"}
BarLinesOf(sorted_symbols) == SelectSeq(sorted_symbols, IsBarLineClass)

\* The list comprehension of one pass of the loop over bar_lines.
MeasureSymbols(sorted_symbols, measure_start, bar_x) ==
    LET In(s) == /\ measure_start <= s.box[1]
                 /\ s.box[1] < bar_x
                 /\ ~HasBarLine(s.class)
    IN  SelectSeq(sorted_symbols, In)

\* The loop over bar_lines from its k-th pass on, measure_start as left by the
\* passes before.
RECURSIVE MeasureLoop(_, _, _, _)
MeasureLoop(sorted_symbols, bar_lines, k, measure_start) ==
    IF k > Len(bar_lines) THEN <<>>
    ELSE LET bar_x == bar_lines[k].box[1]
             measure_symbols == MeasureSymbols(sorted_symbols, measure_start, bar_x)
         IN  (IF measure_symbols # <<>> THEN <<measure_symbols>> ELSE <<>>)
             \o MeasureLoop(sorted_symbols, bar_lines, k + 1, bar_x)

FinalSymbols(sorted_symbols, bar_lines) ==
    LET After(s) == /\ s.box[1] > Last(bar_lines).box[1]
                    /\ ~HasBarLine(s.class)
    IN  SelectSeq(sorted_symbols, After)

group_symbols_by_measure(syms) ==
    LET sorted_symbols == SortedByX(syms)
        bar_lines == BarLinesOf(sorted_symbols)
    IN  IF bar_lines = <<>> THEN <<sorted_symbols>>
        ELSE LET final_symbols == FinalSymbols(sorted_symbols, bar_lines)
             IN  MeasureLoop(sorted_symbols, bar_lines, 1, 0)
                 \o (IF final_symbols # <<>> THEN <<final_symbols>> ELSE <<>>)

\* Bounds of the segmenter's inputs: up to MeasureMaxSyms symbols with integer
\* x in -MeasureXNeg .. MeasureXMax.
MeasureMaxSyms == 3
MeasureXNeg == 1
MeasureXMax == 2
MeasureClasses == {"quarter_note", "half_rest", "bar_line", "double_bar_line"}
MeasureInputs ==
    SeqsUpTo({Symbol(c, x, 0, C4Str) :
                 c \in MeasureClasses, x \in (0 - MeasureXNeg)..MeasureXMax},
             MeasureMaxSyms)

InitMeasure ==
    /\ pc = "group_symbols_by_measure"
    /\ symbols \in MeasureInputs
    /\ measures = None /\ returned = None /\ midi = None
    /\ IdlePitch /\ IdleStaff /\ IdlePos /\ IdleReq /\ IdleRun

GroupSymbolsByMeasure ==
    /\ pc = "group_symbols_by_measure"
    /\ measures' = group_symbols_by_measure(symbols)
    /\ pc' = "done"
    /\ UNCHANGED <<symbols, returned, midi, pitchVars, staffVars, posVars, reqVars, runVars>>

NextMeasure == GroupSymbolsByMeasure
SpecMeasure == InitMeasure /\ [][NextMeasure]_vars

\* C1: each non-bar-line symbol appears in exactly one returned measure, and the
\* measures concatenated in order are the x-sorted symbols with the bar lines
\* removed.
NotBarLine(s) == ~IsBarLineClass(s)
C1_Partition ==
    pc = "done" =>
        Concat(measures) = SelectSeq(SortedByX(symbols), NotBarLine)

\* C8: no returned measure is empty, whatever the input (the empty list and
\* lists without bar lines included).
C8_NoEmptyMeasure ==
    pc = "done" => \A k \in 1..Len(measures) : measures[k] # <<>>

(***************************************************************************)
(* pitch_to_midi_number (utils/midi_generation.py).                        *)
(***************************************************************************)
Letters == {"A", "B", "C", "D", "E", "F", "G"}
Digits  == {"0", "1", "2", "3", "4", "5", "6", "7", "8", "9"}

\* int(c) for a one-character string c: the value of a digit; int() raises
\* ValueError on every other character (IntRaises).
IntRaises(c) == c \notin Digits
DigitValue(c) ==
    CASE c = "0" -> 0 [] c = "1" -> 1 [] c = "2" -> 2 [] c = "3" -> 3
      [] c = "4" -> 4 [] c = "5" -> 5 [] c = "6" -> 6 [] c = "7" -> 7
      [] c = "8" -> 8 [] c = "9" -> 9

\* note_map.get(note, 0): the 17 keys of note_map, 0 for every other string.
note_map_get(note) ==
    CASE note = <<"C">> -> 0
      [] note = <<"C", "#">> -> 1  [] note = <<"D", "b">> -> 1
      [] note = <<"D">> -> 2
      [] note = <<"D", "#">> -> 3  [] note = <<"E", "b">> -> 3
      [] note = <<"E">> -> 4
      [] note = <<"F">> -> 5
      [] note = <<"F", "#">> -> 6  [] note = <<"G", "b">> -> 6
      [] note = <<"G">> -> 7
      [] note = <<"G", "#">> -> 8  [] note = <<"A", "b">> -> 8
      [] note = <<"A">> -> 9
      [] note = <<"A", "#">> -> 10 [] note = <<"B", "b">> -> 10
      [] note = <<"B">> -> 11
      [] OTHER -> 0

Min(a, b) == IF a < b THEN a ELSE b
Max(a, b) == IF a > b THEN a ELSE b

\* The try block: the ValueError of int() on a non-digit is caught by the bare
\* except, which returns 60.
pitch_to_midi_number(p) ==
    IF Len(p) \notin {2, 3} THEN 60
    ELSE IF IntRaises(p[Len(p)]) THEN 60
    ELSE LET note == SubSeq(p, 1, Len(p) - 1)
             octave == DigitValue(p[Len(p)])
             midi_num == (octave + 1) * 12 + note_map_get(note)
         IN  Max(0, Min(127, midi_num))

\* Bounds of the pitch strings tried: every string of up to PitchMaxLen
\* characters over PitchChars.
PitchMaxLen == 4
PitchChars == Letters \cup {"H", "#", "b", "-", "0", "3", "4", "5", "9"}
PitchInputs == SeqsUpTo(PitchChars, PitchMaxLen)

InitPitch ==
    /\ pc = "pitch_to_midi_number"
    /\ pitch \in PitchInputs
    /\ midi_number = None
    /\ IdleSym /\ IdleStaff /\ IdlePos /\ IdleReq /\ IdleRun

PitchToMidiNumber ==
    /\ pc = "pitch_to_midi_number"
    /\ midi_number' = pitch_to_midi_number(pitch)
    /\ pc' = "done"
    /\ UNCHANGED <<pitch, symVars, staffVars, posVars, reqVars, runVars>>

NextPitch == PitchToMidiNumber
SpecPitch == InitPitch /\ [][NextPitch]_vars

\* A well-formed pitch: a letter A..G, an optional # or b, one octave digit.
WellFormed(p) ==
    /\ Len(p) \in {2, 3}
    /\ p[1] \in Letters
    /\ Len(p) = 3 => p[2] \in {"#", "b"}
    /\ p[Len(p)] \in Digits

\* Standard chromatic assignment: C=0 .. B=11, sharp +1, flat -1.
LetterOffset(l) ==
    CASE l = "C" -> 0 [] l = "D" -> 2 [] l = "E" -> 4 [] l = "F" -> 5
      [] l = "G" -> 7 [] l = "A" -> 9 [] l = "B" -> 11
SemitoneOffset(p) ==
    LetterOffset(p[1])
        + (IF Len(p) = 3 THEN (IF p[2] = "#" THEN 1 ELSE -1) ELSE 0)
ExactMidi(p) == (DigitValue(p[Len(p)]) + 1) * 12 + SemitoneOffset(p)
Clamp(n) == Max(0, Min(127, n))

\* C6: C4 -> 60, A4 -> 69, C#4 -> 61, B3 -> 59; every well-formed pitch maps to
\* (octave + 1) * 12 + semitone offset, clamped; every result is in 0..127.
C6_MidiMapping ==
    pc = "done" =>
        /\ midi_number \in 0..127
        /\ pitch = <<"C", "4">> => midi_number = 60
        /\ pitch = <<"A", "4">> => midi_number = 69
        /\ pitch = <<"C", "#", "4">> => midi_number = 61
        /\ pitch = <<"B", "3">> => midi_number = 59
        /\ WellFormed(pitch) => midi_number = Clamp(ExactMidi(pitch))

\* C10: a pitch that is not well-formed maps to 60 (and the call returns).
C10_MalformedIsMiddleC ==
    pc = "done" => (~WellFormed(pitch) => midi_number = 60)

(***************************************************************************)
(* generate_midi_file (utils/midi_generation.py).                          *)
(***************************************************************************)
Velocity == 100
DefaultBpm == 120

\* (C13 mutant of MidiLoop: current_time is not advanced after a note.)
RECURSIVE MidiLoopNoAdvance(_, _, _)
MidiLoopNoAdvance(syms, k, current_time) ==
    IF k > Len(syms) THEN <<>>
    ELSE IF HasNote(syms[k].class)
         THEN <<[pitch |-> pitch_to_midi_number(syms[k].pitch),
                 time |-> current_time,
                 duration |-> syms[k].duration,
                 velocity |-> Velocity]>>
              \o MidiLoopNoAdvance(syms, k + 1, current_time)
         ELSE MidiLoopNoAdvance(syms, k + 1, current_time)

\* The for loop from its k-th symbol on: the notes handed to midi.addNote, each
\* with the value of current_time at the call.
RECURSIVE MidiLoop(_, _, _)
MidiLoop(syms, k, current_time) ==
    IF k > Len(syms) THEN <<>>
    ELSE IF HasNote(syms[k].class)
         THEN <<[pitch |-> pitch_to_midi_number(syms[k].pitch),
                 time |-> current_time,
                 duration |-> syms[k].duration,
                 velocity |-> Velocity]>>
              \o MidiLoop(syms, k + 1, current_time + syms[k].duration)
         ELSE MidiLoop(syms, k + 1, current_time)

\* The MIDIFile as built before it is written: one tempo event and the notes.
generate_midi_file(syms, bpm) ==
    [tempo |-> bpm, notes |-> MidiLoop(syms, 1, 0)]

MidiMaxSyms == 3
MidiClasses == {"quarter_note", "half_note", "quarter_rest", "bar_line"}
MidiPitches == {<<"E", "4">>, <<"G", "4">>, <<"C", "5", "#">>}
MidiSymbols ==
    {Symbol(c, 0, 0, p) : c \in {k \in MidiClasses : HasNote(k)}, p \in MidiPitches}
        \cup {Symbol(c, 0, 0, C4Str) : c \in {k \in MidiClasses : ~HasNote(k)}}
MidiInputs == SeqsUpTo(MidiSymbols, MidiMaxSyms)

InitMidi ==
    /\ pc = "generate_midi_file"
    /\ symbols \in MidiInputs
    /\ measures = None /\ returned = None /\ midi = None
    /\ IdlePitch /\ IdleStaff /\ IdlePos /\ IdleReq /\ IdleRun

\* open()/writeFile either succeed, or raise: the except clause logs and
\* re-raises, so the call ends in an exception.
GenerateMidiFile ==
    /\ pc = "generate_midi_file"
    /\ midi' = generate_midi_file(symbols, DefaultBpm)
    /\ \E io_ok \in BOOLEAN : pc' = IF io_ok THEN "done" ELSE "raised"
    /\ UNCHANGED <<symbols, measures, returned, pitchVars, staffVars, posVars, reqVars, runVars>>

NextMidi == GenerateMidiFile
SpecMidi == InitMidi /\ [][NextMidi]_vars

\* Indices of the note symbols, in order.
RECURSIVE NoteIndices(_, _)
NoteIndices(syms, k) ==
    IF k > Len(syms) THEN <<>>
    ELSE (IF HasNote(syms[k].class) THEN <<k>> ELSE <<>>) \o NoteIndices(syms, k + 1)

IsNoteOrRest(class) == HasNote(class) \/ class \in RestClasses

\* Sum of the durations of the note and rest symbols before index k.
RECURSIVE DurationBefore(_, _)
DurationBefore(syms, k) ==
    IF k <= 1 THEN 0
    ELSE DurationBefore(syms, k - 1)
         + (IF IsNoteOrRest(syms[k - 1].class) THEN syms[k - 1].duration ELSE 0)

\* C2: the cursor starts at 0 and notes and rests advance it: each emitted note
\* starts at the sum of the durations of the note and rest symbols before it,
\* and rests emit nothing.
C2_RestsAdvanceCursor ==
    pc \in {"done", "raised"} =>
        LET idx == NoteIndices(symbols, 1)
        IN  /\ Len(midi.notes) = Len(idx)
            /\ \A n \in 1..Len(idx) :
                   midi.notes[n].time = DurationBefore(symbols, idx[n])

(***************************************************************************)
(* apply_accidentals_to_notes (app.py).                                    *)
(***************************************************************************)
AccidentalClasses == {"sharp", "flat", "natural"}
IsAccidental(s) == s.class \in AccidentalClasses
\* elif 'note' in symbol['class'] (no accidental class contains "note").
IsNote(s) == ~IsAccidental(s) /\ HasNote(s.class)

VerticalWindow == 20

\* (C7 mutant of InWindow: the vertical test admits a difference of exactly
\* the window.)
InWindowInclusive(note, accidental) ==
    /\ accidental.box[1] < note.box[1]
    /\ Abs(accidental.box[2] - note.box[2]) <= VerticalWindow

\* The test of the inner loop: the accidental is left of the note and its box
\* y is within the window of the note's box y.
InWindow(note, accidental) ==
    /\ accidental.box[1] < note.box[1]
    /\ Abs(accidental.box[2] - note.box[2]) < VerticalWindow

\* The inner loop from the k-th accidental on; closest is the index of
\* closest_accidental (0 for None), min_distance its distance.
RECURSIVE ClosestLoop(_, _, _, _, _)
ClosestLoop(note, accidentals, k, closest, min_distance) ==
    IF k > Len(accidentals) THEN closest
    ELSE LET distance == note.box[1] - accidentals[k].box[1]
         IN  IF /\ InWindow(note, accidentals[k])
                /\ (closest = 0 \/ distance < min_distance)
             THEN ClosestLoop(note, accidentals, k + 1, k, distance)
             ELSE ClosestLoop(note, accidentals, k + 1, closest, min_distance)

closest_accidental(note, accidentals) == ClosestLoop(note, accidentals, 1, 0, 0)

\* str.replace('4', with): every "4" of the string is replaced.
RECURSIVE Replace4(_, _)
Replace4(p, with) ==
    IF p = <<>> THEN <<>>
    ELSE (IF Head(p) = "4" THEN with ELSE <<Head(p)>>) \o Replace4(Tail(p), with)

Contains4(p) == \E k \in 1..Len(p) : p[k] = "4"

\* pitch.replace('4', '#4') if '4' in pitch else pitch + '#', and the same with
\* 'b'; a natural leaves the pitch.
AlteredPitch(p, class) ==
    CASE class = "sharp" ->
             IF Contains4(p) THEN Replace4(p, <<"#", "4">>) ELSE p \o <<"#">>
      [] class = "flat" ->
             IF Contains4(p) THEN Replace4(p, <<"b", "4">>) ELSE p \o <<"b">>
      [] OTHER -> p

\* One pass of the loop over notes.
ApplyToNote(note, accidentals) ==
    LET c == closest_accidental(note, accidentals)
    IN  IF c = 0 THEN note
        ELSE [note EXCEPT !.accidental = accidentals[c].class,
                          !.pitch = AlteredPitch(note.pitch, accidentals[c].class)]

\* The symbols after the loop over notes (notes are mutated in place).
SymbolsAfterBinding(syms) ==
    LET accidentals == SelectSeq(syms, IsAccidental)
    IN  [k \in 1..Len(syms) |->
            IF IsNote(syms[k]) THEN ApplyToNote(syms[k], accidentals) ELSE syms[k]]

NotAccidental(s) == ~IsAccidental(s)
apply_accidentals_to_notes(syms) == SelectSeq(SymbolsAfterBinding(syms), NotAccidental)

\* The pitch ladders of the source: calculate_pitch_from_staff_position and the
\* treble, bass and alto tables of calculate_pitch_from_position.
StaffPitches ==
    <<<<"F", "5">>, <<"E", "5">>, <<"D", "5">>, <<"C", "5">>, <<"B", "4">>,
      <<"A", "4">>, <<"G", "4">>, <<"F", "4">>, <<"E", "4">>, <<"D", "4">>,
      <<"C", "4">>>>
treble_pitches ==
    <<<<"E", "5">>, <<"D", "5">>, <<"C", "5">>, <<"B", "4">>, <<"A", "4">>,
      <<"G", "4">>, <<"F", "4">>, <<"E", "4">>, <<"D", "4">>, <<"C", "4">>,
      <<"B", "3">>>>
bass_pitches ==
    <<<<"G", "3">>, <<"F", "3">>, <<"E", "3">>, <<"D", "3">>, <<"C", "3">>,
      <<"B", "2">>, <<"A", "2">>, <<"G", "2">>, <<"F", "2">>, <<"E", "2">>,
      <<"D", "2">>>>
alto_pitches ==
    <<<<"G", "4">>, <<"F", "4">>, <<"E", "4">>, <<"D", "4">>, <<"C", "4">>,
      <<"B", "3">>, <<"A", "3">>, <<"G", "3">>, <<"F", "3">>, <<"E", "3">>,
      <<"D", "3">>>>
Range(f) == {f[k] : k \in DOMAIN f}
LadderPitches ==
    Range(StaffPitches) \cup Range(treble_pitches) \cup Range(bass_pitches)
        \cup Range(alto_pitches)

\* Bounds of the binder's inputs.  Box y is in AccYs (differences 0, 19 and 20
\* around the window).  Geometry family: up to AccMaxSyms symbols (notes
\* pitched E4, rests, sharps), x in 0..AccXMax.  Pair family: two accidentals of
\* any kind and one note, x in 0..AccXMax+1, so that the accidentals can stand
\* at different distances left of the note.  Ladder family: one accidental
\* directly left of one note, the note taking every pitch of the ladders.
AccMaxSyms == 3
AccXMax == 1
AccYs == {0, VerticalWindow - 1, VerticalWindow}
AccClasses == {"quarter_note", "quarter_rest", "sharp"}
AccGeometrySymbols ==
    {Symbol(c, x, y, IF HasNote(c) THEN <<"E", "4">> ELSE C4Str) :
        c \in AccClasses, x \in 0..AccXMax, y \in AccYs}
AccPairInputs ==
    {<<Symbol(a1, x1, y1, C4Str), Symbol(a2, x2, y2, C4Str),
       Symbol("quarter_note", x3, y3, <<"E", "4">>)>> :
        a1 \in AccidentalClasses, a2 \in AccidentalClasses,
        x1 \in 0..(AccXMax + 1), x2 \in 0..(AccXMax + 1), x3 \in 0..(AccXMax + 1),
        y1 \in AccYs, y2 \in AccYs, y3 \in AccYs}
AccLadderInputs ==
    {<<Symbol(a, 0, 0, C4Str), Symbol("quarter_note", 1, 0, p)>> :
        a \in AccidentalClasses, p \in LadderPitches}

\* Height family: one accidental directly left of one note, each box AccLow or
\* AccTall high with its top at 0 or VerticalWindow down, so that the tops of
\* two boxes and their vertical centers can lie on different sides of the
\* window.
AccLow == 10
AccTall == 50
SymbolOfHeight(class, x, y, h, p) ==
    [Symbol(class, x, y, p) EXCEPT !.box = <<x, y, BoxW, h>>]
AccHeightInputs ==
    {<<SymbolOfHeight(a, 0, y1, h1, C4Str),
       SymbolOfHeight("quarter_note", 1, y2, h2, <<"E", "4">>)>> :
        a \in AccidentalClasses,
        y1 \in {0, VerticalWindow}, y2 \in {0, VerticalWindow},
        h1 \in {AccLow, AccTall}, h2 \in {AccLow, AccTall}}

InitAcc ==
    /\ pc = "apply_accidentals_to_notes"
    /\ \/ \E n \in 0..AccMaxSyms : symbols \in [1..n -> AccGeometrySymbols]
       \/ symbols \in AccPairInputs
       \/ symbols \in AccLadderInputs
       \/ symbols \in AccHeightInputs
    /\ measures = None /\ returned = None /\ midi = None
    /\ IdlePitch /\ IdleStaff /\ IdlePos /\ IdleReq /\ IdleRun

\* symbols keeps the argument as it was passed, so that the result can be
\* compared with it; the notes of returned are its notes after the mutation.
ApplyAccidentalsToNotes ==
    /\ pc = "apply_accidentals_to_notes"
    /\ returned' = apply_accidentals_to_notes(symbols)
    /\ pc' = "done"
    /\ UNCHANGED <<symbols, measures, midi, pitchVars, staffVars, posVars, reqVars, runVars>>

NextAcc == ApplyAccidentalsToNotes
SpecAcc == InitAcc /\ [][NextAcc]_vars

\* Position in the returned list of the k-th symbol of the argument (a note).
ReturnedIndex(syms, k) ==
    Cardinality({j \in 1..k : syms[j].class \notin {"sharp", "flat", "natural"}})

NoteIndexSet(syms) == {k \in 1..Len(syms) : IsNote(syms[k])}

\* C5: a bound sharp raises the note's MIDI number by one, a bound flat lowers it
\* by one, a bound natural leaves the number of the unaltered letter and octave.
C5_SemitoneArithmetic ==
    pc = "done" =>
        \A k \in NoteIndexSet(symbols) :
            LET before == pitch_to_midi_number(symbols[k].pitch)
                note == returned[ReturnedIndex(symbols, k)]
                after == pitch_to_midi_number(note.pitch)
            IN  /\ note.accidental = "sharp" => after = before + 1
                /\ note.accidental = "flat" => after = before - 1
                /\ note.accidental = "natural" => after = before

\* Some sharp, flat or natural lies strictly left of the note and within 20px
\* of it vertically.
AccidentalNearby(syms, note) ==
    \E j \in 1..Len(syms) :
        /\ syms[j].class \in {"sharp", "flat", "natural"}
        /\ syms[j].box[1] < note.box[1]
        /\ Abs(syms[j].box[2] - note.box[2]) < 20

CenterY2(s) == 2 * s.box[2] + s.box[4]

\* The accidentals of syms that the claim calls eligible for the note: strictly
\* left of it, vertical centers less than 20px apart.
EligibleByCenter(syms, note) ==
    {j \in 1..Len(syms) :
        /\ IsAccidental(syms[j])
        /\ syms[j].box[1] < note.box[1]
        /\ Abs(CenterY2(syms[j]) - CenterY2(note)) < 2 * VerticalWindow}

\* The same with the vertical distance taken between the tops of the boxes.
EligibleByBoxTop(syms, note) ==
    {j \in 1..Len(syms) :
        /\ IsAccidental(syms[j])
        /\ syms[j].box[1] < note.box[1]
        /\ Abs(syms[j].box[2] - note.box[2]) < VerticalWindow}

\* Those of the eligible accidentals that are horizontally nearest to the note.
Nearest(syms, note, eligible) ==
    {j \in eligible :
        \A n \in eligible : note.box[1] - syms[j].box[1] <= note.box[1] - syms[n].box[1]}

\* The note of the returned list is bound as the eligible set demands: to one
\* of its nearest accidentals, or to none when the set is empty.
BoundWithin(syms, k, eligible) ==
    LET note == returned[ReturnedIndex(syms, k)]
    IN  IF eligible = {}
        THEN note.accidental = "none" /\ note.pitch = syms[k].pitch
        ELSE \E j \in Nearest(syms, syms[k], eligible) :
                 note.accidental = syms[j].class

\* C14: every note is bound to the horizontally nearest accidental among the
\* accidentals strictly left of it whose vertical center is less than 20px
\* from the note's vertical center, whatever the heights of the boxes, and to
\* no accidental when there is none such.
C14_BindsByVerticalCenter ==
    pc = "done" =>
        \A k \in NoteIndexSet(symbols) :
            BoundWithin(symbols, k, EligibleByCenter(symbols, symbols[k]))

\* What the binder does instead: the same statement with the vertical distance
\* taken between the tops of the boxes.
BindsByBoxTop ==
    pc = "done" =>
        \A k \in NoteIndexSet(symbols) :
            BoundWithin(symbols, k, EligibleByBoxTop(symbols, symbols[k]))

\* One accidental is recorded on two notes of the returned list.
SharedAccidental ==
    /\ pc = "done"
    /\ Cardinality({j \in 1..Len(symbols) : IsAccidental(symbols[j])}) = 1
    /\ Cardinality({n \in 1..Len(returned) : returned[n].accidental # "none"}) = 2

(***************************************************************************)
(* group_staff_lines, validate_staff_spacing (utils/image_processing.py).  *)
(* lines is HoughLinesP's result: None, or segments <<x1, y1, x2, y2>>.    *)
(***************************************************************************)
\* (C3 mutant of validate_staff_spacing: the loop over the spacings rejects
\* nothing, so every window of 5 midpoints is accepted.)
validate_length_only(staff_group) == Len(staff_group) = 5

\* abs(spacing - avg_spacing) > avg_spacing * 0.2 with avg_spacing = total / 4,
\* both sides multiplied by 20.  (On integer spacings the float comparison
\* agrees with the exact one, the case of equality included.)
validate_staff_spacing(staff_group) ==
    /\ Len(staff_group) = 5
    /\ LET spacings == [k \in 1..4 |-> staff_group[k + 1] - staff_group[k]]
           total == SeqSum(spacings)
       IN  \A k \in 1..4 : ~(5 * Abs(4 * spacings[k] - total) > total)

\* The loop over lines: the midpoints (y1 + y2) // 2 of the segments with
\* abs(y2 - y1) < 10, in the order of the segments.
RECURSIVE Midpoints(_)
Midpoints(segments) ==
    IF segments = <<>> THEN <<>>
    ELSE LET y1 == Head(segments)[2]
             y2 == Head(segments)[4]
         IN  (IF Abs(y2 - y1) < 10 THEN <<(y1 + y2) \div 2>> ELSE <<>>)
             \o Midpoints(Tail(segments))

\* list.sort() on integers.
InsertSorted(sorted, y) ==
    LET k == Cardinality({j \in 1..Len(sorted) : sorted[j] <= y})
    IN  SubSeq(sorted, 1, k) \o <<y>> \o SubSeq(sorted, k + 1, Len(sorted))
RECURSIVE Sorted(_)
Sorted(ys) == IF ys = <<>> THEN <<>> ELSE InsertSorted(Sorted(Front(ys)), Last(ys))

\* horizontal_lines[i:i+5] (i counts from 0).
Window(hl, idx) == SubSeq(hl, idx + 1, Min(idx + 5, Len(hl)))

\* Bounds of the detector's output: up to StaffMaxLines segments out of
\* StaffSegments: flat ones at 0, 10, 14 and 20, one tilted by 9 (kept, midpoint
\* 4) and one tilted by 10 (dropped).
StaffMaxLines == 6
SegX2 == 300
StaffSegments ==
    {<<0, y, SegX2, y>> : y \in {0, 10, 14, 20}}
        \cup {<<0, 0, SegX2, 9>>, <<0, 5, SegX2, 15>>}

\* A list of flat segments at the given heights.
Flat(y) == <<0, y, SegX2, y>>
FlatLines(ys) == [is_none |-> FALSE, segments |-> [k \in 1..Len(ys) |-> Flat(ys[k])]]

InitStaff ==
    /\ pc = "group_staff_lines"
    /\ \/ lines = [is_none |-> TRUE, segments |-> <<>>]
       \/ \E n \in 1..StaffMaxLines :
              \E segs \in [1..n -> StaffSegments] :
                  lines = [is_none |-> FALSE, segments |-> segs]
    /\ horizontal_lines = <<>> /\ i = 0 /\ staff_systems = <<>>
    /\ IdleSym /\ IdlePitch /\ IdlePos /\ IdleReq /\ IdleRun

\* if lines is None: return []
ReturnNoLines ==
    /\ pc = "group_staff_lines"
    /\ lines.is_none
    /\ pc' = "done"
    /\ UNCHANGED <<symVars, pitchVars, staffVars, posVars, reqVars, runVars>>

\* The filter loop, the sort, staff_systems = [], i = 0.
CollectHorizontalLines ==
    /\ pc = "group_staff_lines"
    /\ ~lines.is_none
    /\ horizontal_lines' = Sorted(Midpoints(lines.segments))
    /\ staff_systems' = <<>>
    /\ i' = 0
    /\ pc' = "while"
    /\ UNCHANGED <<lines, symVars, pitchVars, posVars, reqVars, runVars>>

\* (C15 mutant of AcceptWindow: after an accepted window the scan moves on by
\* one midpoint.)
AcceptWindowAdvanceOne ==
    /\ pc = "while"
    /\ i < Len(horizontal_lines) - 4
    /\ validate_staff_spacing(Window(horizontal_lines, i))
    /\ staff_systems' = Append(staff_systems, Window(horizontal_lines, i))
    /\ i' = i + 1
    /\ UNCHANGED <<pc, lines, horizontal_lines, symVars, pitchVars, posVars, reqVars, runVars>>

\* One pass of the while loop whose window is valid.
AcceptWindow ==
    /\ pc = "while"
    /\ i < Len(horizontal_lines) - 4
    /\ validate_staff_spacing(Window(horizontal_lines, i))
    /\ staff_systems' = Append(staff_systems, Window(horizontal_lines, i))
    /\ i' = i + 5
    /\ UNCHANGED <<pc, lines, horizontal_lines, symVars, pitchVars, posVars, reqVars, runVars>>

\* One pass of the while loop whose window is not valid.
RejectWindow ==
    /\ pc = "while"
    /\ i < Len(horizontal_lines) - 4
    /\ ~validate_staff_spacing(Window(horizontal_lines, i))
    /\ i' = i + 1
    /\ UNCHANGED <<pc, lines, horizontal_lines, staff_systems,
                   symVars, pitchVars, posVars, reqVars, runVars>>

\* The loop condition fails: return staff_systems.
ReturnStaffSystems ==
    /\ pc = "while"
    /\ ~(i < Len(horizontal_lines) - 4)
    /\ pc' = "done"
    /\ UNCHANGED <<symVars, pitchVars, staffVars, posVars, reqVars, runVars>>

NextStaff ==
    \/ ReturnNoLines
    \/ CollectHorizontalLines
    \/ AcceptWindow
    \/ RejectWindow
    \/ ReturnStaffSystems
SpecStaff == InitStaff /\ [][NextStaff]_vars

\* One pass of the scan, or its end.
ScanStep == AcceptWindow \/ RejectWindow \/ ReturnStaffSystems

\* Inputs for the scan over several staffs.  Short lists: None and up to
\* ScanMaxLines segments of StaffSegments.  Long lists: five lines of StaffBlocks
\* (evenly spaced, spaced 4-6-4-6, coincident, unevenly spaced), optionally a
\* stray line at StrayY, and five more lines of StaffBlocks from SecondStaffY
\* down, given top to bottom or bottom to top.
ScanMaxLines == 4
StrayY == 45
SecondStaffY == 50
StaffBlocks ==
    {<<0, 10, 20, 30, 40>>, <<0, 4, 10, 14, 20>>, <<0, 0, 0, 0, 0>>,
     <<0, 3, 10, 14, 20>>}
Shifted(ys, dy) == [k \in 1..Len(ys) |-> ys[k] + dy]
Reversed(ys) == [k \in 1..Len(ys) |-> ys[Len(ys) + 1 - k]]
TwoStaffs ==
    {b1 \o stray \o Shifted(b2, SecondStaffY) :
        b1 \in StaffBlocks, b2 \in StaffBlocks, stray \in {<<>>, <<StrayY>>}}
InitScan ==
    /\ pc = "group_staff_lines"
    /\ \/ lines = [is_none |-> TRUE, segments |-> <<>>]
       \/ \E n \in 1..ScanMaxLines :
              \E segs \in [1..n -> StaffSegments] :
                  lines = [is_none |-> FALSE, segments |-> segs]
       \/ \E ys \in TwoStaffs : lines \in {FlatLines(ys), FlatLines(Reversed(ys))}
    /\ horizontal_lines = <<>> /\ i = 0 /\ staff_systems = <<>>
    /\ IdleSym /\ IdlePitch /\ IdlePos /\ IdleReq /\ IdleRun

\* The loop runs in one thread with nothing to wait for: a pass that can be
\* taken is taken.
SpecScanFair == InitScan /\ [][NextStaff]_vars /\ WF_vars(ScanStep)

\* C3: every staff system (returned, or accepted so far) has exactly 5
\* coordinates in ascending order, and each of its four spacings differs from
\* the mean of the four by at most 20% of that mean.  (Twenty times the
\* difference is compared with four times the mean, the sum.)
C3_StaffSpacing ==
    \A n \in 1..Len(staff_systems) :
        LET sys == staff_systems[n]
            sum4 == sys[5] - sys[1]
        IN  /\ Len(sys) = 5
            /\ \A k \in 1..4 : sys[k] <= sys[k + 1]
            /\ \A k \in 1..4 :
                   20 * Abs((sys[k + 1] - sys[k]) * 4 - sum4) <= 4 * sum4

\* C3 witness: the call has returned a system whose spacings are not all equal
\* (4, 6, 4, 6: each exactly 20% off the mean 5), found after a rejected window.
C3_Witness ==
    /\ pc = "done"
    /\ Len(staff_systems) = 1
    /\ staff_systems[1] = <<0, 4, 10, 14, 20>>
    /\ Len(horizontal_lines) > 5
    /\ horizontal_lines[1] = 0 /\ horizontal_lines[2] = 0

\* The coordinates of a staff system are strictly ascending, except in the
\* degenerate system of five equal midpoints (all spacings 0).
StrictUnlessDegenerate ==
    \A n \in 1..Len(staff_systems) :
        LET sys == staff_systems[n]
        IN  \/ \A k \in 1..4 : sys[k] < sys[k + 1]
            \/ \A k \in 1..4 : sys[k] = sys[k + 1]

\* Each of the four spacings of a window of five lies within 20% of their
\* mean: 20 * |spacing - sum / 4| <= 20 * 0.2 * sum / 4, times 4.
SpacingsWithin20(w) ==
    /\ Len(w) = 5
    /\ \A k \in 1..4 :
           20 * Abs(4 * (w[k + 1] - w[k]) - (w[5] - w[1])) <= 4 * (w[5] - w[1])

\* The accepted systems are windows of five consecutive midpoints at
\* ascending start positions at least five apart, all before the scan index.
DisjointWindows ==
    \E start \in [1..Len(staff_systems) -> 0..(Len(horizontal_lines) - 5)] :
        /\ \A n \in 1..Len(staff_systems) :
               /\ staff_systems[n] = SubSeq(horizontal_lines, start[n] + 1, start[n] + 5)
               /\ start[n] + 5 <= i
        /\ \A n \in 1..(Len(staff_systems) - 1) : start[n] + 5 <= start[n + 1]

\* C15: the grouping scan terminates: once the loop is entered the function
\* returns, the scan index stays within the list and every pass of the loop
\* moves it forward.  The accepted systems are windows of five consecutive
\* midpoints that do not overlap, in ascending order.  A pass accepts the
\* window at the scan index and moves on by 5 if the four spacings of the
\* window each lie within 20% of their mean, and otherwise accepts nothing and
\* moves on by 1.
C15_ScanTerminatesDisjoint ==
    /\ (pc = "while") ~> (pc = "done")
    /\ [](pc \in {"while", "done"} =>
              /\ DisjointWindows
              /\ 0 <= i /\ i <= Max(Len(horizontal_lines), 0))
    /\ [][pc = "while" =>
              LET w == Window(horizontal_lines, i)
              IN  \/ /\ pc' = "done"
                     /\ ~(i < Len(horizontal_lines) - 4)
                     /\ UNCHANGED <<i, staff_systems, horizontal_lines>>
                  \/ /\ pc' = "while"
                     /\ SpacingsWithin20(w)
                     /\ i' = i + 5
                     /\ staff_systems' = Append(staff_systems, w)
                     /\ UNCHANGED horizontal_lines
                  \/ /\ pc' = "while"
                     /\ ~SpacingsWithin20(w)
                     /\ i' = i + 1
                     /\ UNCHANGED <<staff_systems, horizontal_lines>>]_vars

\* C15 witness: the scan has ended on eleven midpoints after accepting the
\* first window, rejecting the window that starts at the stray midpoint and
\* accepting the next one.
C15_Witness ==
    /\ pc = "done"
    /\ horizontal_lines = <<0, 4, 10, 14, 20, 45, 50, 54, 60, 64, 70>>
    /\ staff_systems = <<<<0, 4, 10, 14, 20>>, <<50, 54, 60, 64, 70>>>>
    /\ i = 11

(***************************************************************************)
(* calculate_pitch_from_staff_position (utils/image_processing.py).        *)
(* A vertical position is held doubled (y2 = 2 * y_pos), since center_y is *)
(* (y1 + y2) / 2 of a box.  The result is [raised, pitch]: the division by *)
(* line_spacing raises when the staff's top and bottom lines coincide.     *)
(***************************************************************************)
SeqMin(s) == CHOOSE m \in Range(s) : \A v \in Range(s) : m <= v
SeqMax(s) == CHOOSE m \in Range(s) : \A v \in Range(s) : m >= v

Returns(p) == [raised |-> FALSE, pitch |-> p]
Raises == [raised |-> TRUE, pitch |-> <<>>]

\* relative_pos = (y_pos - staff_top) / (staff_height / 4)
\*              = (2 * y2 - 4 * staff_top) / staff_height, truncated by int().
calculate_pitch_from_staff_position(y2, staff) ==
    IF staff = <<>> THEN Returns(C4Str)
    ELSE LET staff_top == SeqMin(staff)
             staff_bottom == SeqMax(staff)
             staff_height == staff_bottom - staff_top
         IN  IF staff_height = 0 THEN Raises
             ELSE LET pitch_index == TruncDiv(2 * y2 - 4 * staff_top, staff_height)
                  IN  IF 0 <= pitch_index /\ pitch_index < Len(StaffPitches)
                      THEN Returns(StaffPitches[pitch_index + 1])
                      ELSE Returns(C4Str)

\* Bounds: the staffs tried (evenly spaced, unevenly spaced within 20%, and
\* five coincident lines, all of which validate_staff_spacing accepts) and the
\* positions 0, 0.5, .. PosMaxY, which reach above the top line and below the
\* last entry of the ladder of the first staff.
PosMaxY == 30
PosStaffs == {<<4, 6, 8, 10, 12>>, <<0, 4, 10, 14, 20>>, <<4, 4, 4, 4, 4>>}

InitPos ==
    /\ pc = "calculate_pitch_from_staff_position"
    /\ staff_lines \in PosStaffs
    /\ y_pos \in (0..(2 * PosMaxY)) \X (0..(2 * PosMaxY))
    /\ pos_pitch = None
    /\ IdleSym /\ IdlePitch /\ IdleStaff /\ IdleReq /\ IdleRun

\* The function applied to both positions on the same staff.
CalculatePitches ==
    /\ pc = "calculate_pitch_from_staff_position"
    /\ pos_pitch' = <<calculate_pitch_from_staff_position(y_pos[1], staff_lines),
                      calculate_pitch_from_staff_position(y_pos[2], staff_lines)>>
    /\ pc' = "done"
    /\ UNCHANGED <<staff_lines, y_pos, symVars, pitchVars, staffVars, reqVars, runVars>>

NextPos == CalculatePitches
SpecPos == InitPos /\ [][NextPos]_vars

\* C4: on a fixed non-empty staff, for positions y1 < y2 the pitch returned for
\* y2 is not higher, as a MIDI note number, than the pitch returned for y1.
C4_PitchMonotonic ==
    (/\ pc = "done"
     /\ y_pos[1] < y_pos[2]
     /\ ~pos_pitch[1].raised
     /\ ~pos_pitch[2].raised) =>
        pitch_to_midi_number(pos_pitch[2].pitch)
               <= pitch_to_midi_number(pos_pitch[1].pitch)

\* From half a line spacing above the top line downwards (pitch_index >= 0 for
\* both positions) the mapping is monotonic on every staff whose top and
\* bottom lines differ: monotonicity is lost only through the C4 fallback above
\* the top line.
C4_MonotonicInsideLadder ==
    (/\ pc = "done"
     /\ y_pos[1] < y_pos[2]
     /\ SeqMax(staff_lines) > SeqMin(staff_lines)
     /\ 2 * y_pos[1] - 4 * SeqMin(staff_lines) > -(SeqMax(staff_lines) - SeqMin(staff_lines))) =>
        /\ ~pos_pitch[1].raised
        /\ ~pos_pitch[2].raised
        /\ pitch_to_midi_number(pos_pitch[2].pitch)
               <= pitch_to_midi_number(pos_pitch[1].pitch)

(***************************************************************************)
(* analyze_sheet_music_endpoint and get_cached_analysis (app.py).          *)
(* Each request runs on its own thread of the server; req[r] holds its     *)
(* position, the content hash of its upload and whether the upload passes  *)
(* validate_upload_file.  lru is the memo of functools.lru_cache: the keys *)
(* in order of use, each mapped to the value the function returned.        *)
(***************************************************************************)
NumRequests == 3
NumHashes == 2
LruMaxSize == 100
Requests == 1..NumRequests
Hashes == 1..NumHashes

\* The body of get_cached_analysis: return None.
get_cached_analysis_body(image_hash) == None

\* lru_cache: a hit returns the memoised value, a miss calls the body.
get_cached_analysis(memo, image_hash) ==
    IF \E k \in 1..Len(memo) : memo[k].key = image_hash
    THEN (CHOOSE e \in Range(memo) : e.key = image_hash).value
    ELSE get_cached_analysis_body(image_hash)

\* The memo after the call: the key becomes the most recently used one, and the
\* least recently used entry is dropped beyond maxsize.
LruAfter(memo, image_hash) ==
    LET NotKey(e) == e.key # image_hash
        moved == Append(SelectSeq(memo, NotKey),
                        [key |-> image_hash,
                         value |-> get_cached_analysis(memo, image_hash)])
    IN  IF Len(moved) > LruMaxSize THEN Tail(moved) ELSE moved

InitReq ==
    /\ pc = "serving"
    /\ req \in [Requests -> [pc : {"validate"}, hash : Hashes, valid : BOOLEAN]]
    /\ lru = <<>>
    /\ analyses = [h \in Hashes |-> 0]
    /\ IdleSym /\ IdlePitch /\ IdleStaff /\ IdlePos /\ IdleRun

\* validate_upload_file: a rejected upload raises ValueError, answered 400.
ValidateUpload(r) ==
    /\ req[r].pc = "validate"
    /\ req' = [req EXCEPT ![r].pc = IF req[r].valid THEN "save" ELSE "error_400"]
    /\ UNCHANGED <<pc, lru, analyses, symVars, pitchVars, staffVars, posVars, runVars>>

\* save_uploaded_file, calculate_image_hash.
SaveAndHash(r) ==
    /\ req[r].pc = "save"
    /\ req' = [req EXCEPT ![r].pc = "check_cache"]
    /\ UNCHANGED <<pc, lru, analyses, symVars, pitchVars, staffVars, posVars, runVars>>

\* cached_result = get_cached_analysis(image_hash); if cached_result: return it.
CheckCache(r) ==
    /\ req[r].pc = "check_cache"
    /\ LET cached_result == get_cached_analysis(lru, req[r].hash)
       IN  req' = [req EXCEPT ![r].pc =
                      IF cached_result # None THEN "cached" ELSE "analyze"]
    /\ lru' = LruAfter(lru, req[r].hash)
    /\ UNCHANGED <<pc, analyses, symVars, pitchVars, staffVars, posVars, runVars>>

\* result = analyze_sheet_music(image_path): the computation starts ...
StartAnalysis(r) ==
    /\ req[r].pc = "analyze"
    /\ req' = [req EXCEPT ![r].pc = "analyzing"]
    /\ analyses' = [analyses EXCEPT ![req[r].hash] = @ + 1]
    /\ UNCHANGED <<pc, lru, symVars, pitchVars, staffVars, posVars, runVars>>

\* ... and ends; return jsonify(result).  The result is stored nowhere.
FinishAnalysis(r) ==
    /\ req[r].pc = "analyzing"
    /\ req' = [req EXCEPT ![r].pc = "responded"]
    /\ UNCHANGED <<pc, lru, analyses, symVars, pitchVars, staffVars, posVars, runVars>>

NextReq ==
    \E r \in Requests :
        \/ ValidateUpload(r)
        \/ SaveAndHash(r)
        \/ CheckCache(r)
        \/ StartAnalysis(r)
        \/ FinishAnalysis(r)
SpecReq == InitReq /\ [][NextReq]_vars

\* C9: for each content hash analyze_sheet_music is computed at most once,
\* however the requests carrying it interleave.
C9_AtMostOneAnalysisPerHash ==
    pc = "serving" => \A h \in Hashes : analyses[h] <= 1

(***************************************************************************)
(* analyze_sheet_music (app.py), with detect_staff_lines_enhanced and      *)
(* process_detections_enhanced (utils/image_processing.py).                *)
(* run holds what the run meets outside the program: whether cv2.imread    *)
(* decodes the file, what the OpenCV calls of the staff detector do, the   *)
(* detector model and its boxes, and whether the MIDI file can be written. *)
(* Box coordinates are whole pixels.  An exception raised inside the try   *)
(* block is the name of its kind.                                          *)
(***************************************************************************)
\* MUSICAL_SYMBOL_CLASSES, the name of class_id k at position k + 1.
MUSICAL_SYMBOL_CLASSES ==
    <<"whole_note", "half_note", "quarter_note", "eighth_note",
      "sixteenth_note", "thirty_second_note", "sixty_fourth_note",
      "whole_rest", "half_rest", "quarter_rest", "eighth_rest",
      "sixteenth_rest", "thirty_second_rest", "sixty_fourth_rest",
      "treble_clef", "bass_clef", "alto_clef", "tenor_clef",
      "sharp", "flat", "natural", "double_sharp", "double_flat",
      "time_signature_2_4", "time_signature_3_4", "time_signature_4_4",
      "time_signature_6_8", "time_signature_9_8", "time_signature_12_8",
      "common_time", "cut_time", "bar_line", "double_bar_line",
      "repeat_start", "repeat_end", "tie", "slur",
      "beam", "dot", "staccato", "accent",
      "fermata", "trill", "mordent", "turn",
      "grace_note", "chord">>

\* MUSICAL_SYMBOL_CLASSES.get(class_id, 'unknown')
ClassName(class_id) ==
    IF class_id \in 0..(Len(MUSICAL_SYMBOL_CLASSES) - 1)
    THEN MUSICAL_SYMBOL_CLASSES[class_id + 1] ELSE "unknown"

\* The while loop of group_staff_lines from scan index idx on: the systems it
\* appends.
RECURSIVE StaffScan(_, _)
StaffScan(hl, idx) ==
    IF ~(idx < Len(hl) - 4) THEN <<>>
    ELSE IF validate_staff_spacing(Window(hl, idx))
         THEN <<Window(hl, idx)>> \o StaffScan(hl, idx + 5)
         ELSE StaffScan(hl, idx + 1)

group_staff_lines(hough_lines) ==
    IF hough_lines.is_none THEN <<>>
    ELSE StaffScan(Sorted(Midpoints(hough_lines.segments)), 0)

\* (C12 mutant of detect_staff_lines_enhanced: no except clause, a failure of
\* an OpenCV call leaves the function as an exception.)
detect_staff_lines_unguarded(cv) ==
    IF cv.raises THEN [raised |-> TRUE, staff_groups |-> <<>>]
    ELSE [raised |-> FALSE, staff_groups |-> group_staff_lines(cv.lines)]

\* cv is what the OpenCV calls do: one of them raises, or HoughLinesP returns
\* cv.lines.  The except clause turns the exception into [].
detect_staff_lines_enhanced(cv) ==
    IF cv.raises THEN [raised |-> FALSE, staff_groups |-> <<>>]
    ELSE [raised |-> FALSE, staff_groups |-> group_staff_lines(cv.lines)]

\* staff_lines = [[100, 150, 200, 250, 300]]
MockStaffLines == <<<<100, 150, 200, 250, 300>>>>

\* if not staff_lines: staff_lines = [[100, 150, 200, 250, 300]]
StaffLinesOrMock(detected) == IF detected = <<>> THEN MockStaffLines ELSE detected

\* The symbol dict of process_detections_enhanced for a box x1, y1, x2, y2.
DetectedSymbol(symbol_class, b, p) ==
    [class |-> symbol_class,
     box |-> <<b.x1, b.y1, b.x2 - b.x1, b.y2 - b.y1>>,
     pitch |-> p,
     duration |-> SYMBOL_DURATIONS(symbol_class),
     accidental |-> "none"]

\* The loop over the boxes from the k-th on.  center_y = (y1 + y2) / 2, handed
\* on doubled; an exception of the pitch calculation ends the loop.
RECURSIVE DetectionLoop(_, _, _)
DetectionLoop(boxes, k, staff) ==
    IF k > Len(boxes) THEN [raised |-> FALSE, symbols |-> <<>>]
    ELSE LET b == boxes[k]
             symbol_class == ClassName(b.cls)
             p == IF HasNote(symbol_class)
                  THEN calculate_pitch_from_staff_position(b.y1 + b.y2, staff)
                  ELSE Returns(C4Str)
         IN  IF p.raised THEN [raised |-> TRUE, symbols |-> <<>>]
             ELSE LET rest == DetectionLoop(boxes, k + 1, staff)
                  IN  IF rest.raised THEN rest
                      ELSE [raised |-> FALSE,
                            symbols |-> <<DetectedSymbol(symbol_class, b, p.pitch)>>
                                            \o rest.symbols]

process_detections_enhanced(boxes, staff) == DetectionLoop(boxes, 1, staff)

\* The mock detection data used when no model is loaded.
MockSymbols ==
    <<Symbol("quarter_note", 150, 180, <<"E", "4">>),
      Symbol("half_note", 200, 160, <<"G", "4">>)>>

bpm == 120

\* (C11 mutant of Caught: no except clause, the exception leaves the function.)
Uncaught(e) == [pc |-> "raised", result |-> [status |-> "raised", message |-> e]]

\* except Exception as e: return {"status": "error", "message": ...}
Caught(e) == [pc |-> "returned", result |-> [status |-> "error", message |-> e]]

\* The result dict of a run that reached the end of the try block.
SuccessResult(syms, ms) ==
    [status |-> "success",
     bpm |-> bpm,
     notes |-> SelectSeq(syms, IsNote),
     measures |-> Len(ms),
     symbols_detected |-> Len(syms)]

NoResult == [status |-> "pending"]

\* Bounds of the runs.  The OpenCV side: a failing call, no line, four lines,
\* an evenly spaced staff, five lines that fail the spacing test, and five
\* coincident lines.  The boxes: up to AnalyzeMaxBoxes boxes of BoxW x BoxH at
\* three places, of class half_note, quarter_note, sharp or bar_line.  Inputs
\* a run never reads are held at one value.
AnalyzeMaxBoxes == 2
CvCases ==
    {[raises |-> TRUE, lines |-> [is_none |-> TRUE, segments |-> <<>>]],
     [raises |-> FALSE, lines |-> [is_none |-> TRUE, segments |-> <<>>]],
     [raises |-> FALSE, lines |-> FlatLines(<<160, 170, 180, 190>>)],
     [raises |-> FALSE, lines |-> FlatLines(<<200, 160, 170, 180, 190>>)],
     [raises |-> FALSE, lines |-> FlatLines(<<160, 170, 180, 190, 260>>)],
     [raises |-> FALSE, lines |-> FlatLines(<<180, 180, 180, 180, 180>>)]}
BoxPlaces == {<<150, 180>>, <<200, 160>>, <<130, 170>>}
BoxClassIds == {1, 2, 18, 31}
Boxes ==
    {[cls |-> c, x1 |-> xy[1], y1 |-> xy[2], x2 |-> xy[1] + BoxW, y2 |-> xy[2] + BoxH] :
        c \in BoxClassIds, xy \in BoxPlaces}
NoModel == [model |-> "none", boxes |-> <<>>]
Runs ==
    {[image_ok |-> FALSE, cv |-> CHOOSE c \in CvCases : c.raises,
      model |-> "none", boxes |-> <<>>, io_ok |-> TRUE]}
    \cup
    {[image_ok |-> TRUE, cv |-> c, model |-> m.model, boxes |-> m.boxes, io_ok |-> io] :
        c \in CvCases, io \in BOOLEAN,
        m \in {NoModel, [model |-> "raises", boxes |-> <<>>]}
              \cup {[model |-> "loaded", boxes |-> bs] :
                       bs \in SeqsUpTo(Boxes, AnalyzeMaxBoxes)}}

InitAnalyze ==
    /\ pc = "imread"
    /\ run \in Runs
    /\ staff_groups = <<>>
    /\ result = NoResult
    /\ symbols = <<>> /\ measures = None /\ returned = None /\ midi = None
    /\ IdlePitch /\ IdleStaff /\ IdlePos /\ IdleReq

\* image = cv2.imread(image_path); if image is None: raise ValueError(...)
Imread ==
    /\ pc = "imread"
    /\ LET out == IF run.image_ok THEN [pc |-> "detect_staff_lines", result |-> result]
                  ELSE Caught("Could not load image")
       IN  pc' = out.pc /\ result' = out.result
    /\ UNCHANGED <<run, staff_groups, symVars, pitchVars, staffVars, posVars, reqVars>>

\* staff_lines = detect_staff_lines_enhanced(image), and the mock staff when
\* the list is empty.
DetectStaffLines ==
    /\ pc = "detect_staff_lines"
    /\ LET detected == detect_staff_lines_enhanced(run.cv)
           out == IF detected.raised THEN Caught("staff detection")
                  ELSE [pc |-> "detect_symbols", result |-> result]
       IN  /\ staff_groups' = IF detected.raised THEN staff_groups
                              ELSE StaffLinesOrMock(detected.staff_groups)
           /\ pc' = out.pc /\ result' = out.result
    /\ UNCHANGED <<run, symVars, pitchVars, staffVars, posVars, reqVars>>

\* if model: predict and process_detections_enhanced(results[0],
\* staff_lines[0]); else the mock symbols.  (staff_lines is not empty here.)
DetectSymbols ==
    /\ pc = "detect_symbols"
    /\ LET processed == process_detections_enhanced(run.boxes, staff_groups[1])
           out == CASE run.model = "none" ->
                           [pc |-> "apply_accidentals", result |-> result]
                    [] run.model = "raises" -> Caught("predict")
                    [] processed.raised -> Caught("pitch calculation")
                    [] OTHER -> [pc |-> "apply_accidentals", result |-> result]
       IN  /\ symbols' = CASE run.model = "none" -> MockSymbols
                           [] run.model = "raises" -> symbols
                           [] OTHER -> processed.symbols
           /\ pc' = out.pc /\ result' = out.result
    /\ UNCHANGED <<run, staff_groups, measures, returned, midi,
                   pitchVars, staffVars, posVars, reqVars>>

\* symbols = apply_accidentals_to_notes(symbols)
ApplyAccidentals ==
    /\ pc = "apply_accidentals"
    /\ symbols' = apply_accidentals_to_notes(symbols)
    /\ pc' = "group_symbols"
    /\ UNCHANGED <<measures, returned, midi, runVars,
                   pitchVars, staffVars, posVars, reqVars>>

\* measures = group_symbols_by_measure(symbols, staff_lines)
GroupSymbols ==
    /\ pc = "group_symbols"
    /\ measures' = group_symbols_by_measure(symbols)
    /\ pc' = "generate_midi"
    /\ UNCHANGED <<symbols, returned, midi, runVars,
                   pitchVars, staffVars, posVars, reqVars>>

\* generate_midi_file(symbols, midi_path, bpm), which re-raises what open() or
\* writeFile raise; then the result dict is built and returned.
GenerateMidiAndReturn ==
    /\ pc = "generate_midi"
    /\ midi' = generate_midi_file(symbols, bpm)
    /\ LET out == IF run.io_ok
                  THEN [pc |-> "returned", result |-> SuccessResult(symbols, measures)]
                  ELSE Caught("midi write")
       IN  pc' = out.pc /\ result' = out.result
    /\ UNCHANGED <<symbols, measures, returned, run, staff_groups,
                   pitchVars, staffVars, posVars, reqVars>>

NextAnalyze ==
    \/ Imread
    \/ DetectStaffLines
    \/ DetectSymbols
    \/ ApplyAccidentals
    \/ GroupSymbols
    \/ GenerateMidiAndReturn
SpecAnalyze == InitAnalyze /\ [][NextAnalyze]_vars

\* The stages of a run in the order of the function body, the return last.
AnalyzeStages ==
    <<"imread", "detect_staff_lines", "detect_symbols", "apply_accidentals",
      "group_symbols", "generate_midi", "returned">>
StageIndex(p) == CHOOSE k \in 1..Len(AnalyzeStages) : AnalyzeStages[k] = p

\* C11: analyze_sheet_music never lets a failure escape: a run is always at a
\* stage of the function or has returned (it is never left by an exception),
\* every step takes it to the next stage or to the return, and what it returns
\* has status success or error.  A run whose image cannot be decoded, and a run
\* whose call of generate_midi_file fails, returns at that step an error result
\* with a message; a success result is returned only by a run in which the
\* image was decoded, the model did not fail and the MIDI file was written.
C11_FailureNeverEscapes ==
    /\ [](/\ pc \in Range(AnalyzeStages)
          /\ pc = "returned" => result.status \in {"success", "error"}
          /\ (pc = "returned" /\ result.status = "success") =>
                 run.image_ok /\ run.io_ok /\ run.model # "raises")
    /\ [][/\ \/ pc' = "returned"
             \/ StageIndex(pc') = StageIndex(pc) + 1
          /\ (\/ pc = "imread" /\ ~run.image_ok
              \/ pc = "generate_midi" /\ ~run.io_ok) =>
                 /\ pc' = "returned"
                 /\ result'.status = "error"
                 /\ result'.message # ""]_vars

\* C11 witness: every stage up to the MIDI encoder passed on detected symbols,
\* the write failed, and the run returned an error result.
C11_Witness ==
    /\ pc = "returned"
    /\ run.image_ok /\ run.model = "loaded" /\ ~run.io_ok
    /\ Len(symbols) > 0
    /\ measures # <<>>
    /\ result.status = "error"
    /\ result.message = "midi write"

\* The staff detector finds no system: an OpenCV call fails, HoughLinesP
\* returns None, or no five consecutive midpoints pass the spacing test.
NoStaffSystem(cv) ==
    \/ cv.raises
    \/ cv.lines.is_none
    \/ LET hl == Sorted(Midpoints(cv.lines.segments))
       IN  \A idx \in 0..(Len(hl) - 5) : ~validate_staff_spacing(Window(hl, idx))

\* C12: in a run whose staff detection yields no system, the detection stage
\* is left without an exception and every later stage works with the synthetic
\* staff [100, 150, 200, 250, 300]; such a run returns an error result only if
\* the image could not be decoded, the model failed or the MIDI file could not
\* be written.
C12_EmptyDetectionIsSoft ==
    (pc \in Range(AnalyzeStages) /\ NoStaffSystem(run.cv)) =>
        /\ pc \in {"detect_symbols", "apply_accidentals", "group_symbols",
                   "generate_midi"} => staff_groups = MockStaffLines
        /\ (pc = "returned" /\ run.image_ok) => staff_groups = MockStaffLines
        /\ (pc = "returned" /\ result.status = "error") =>
               ~run.image_ok \/ run.model = "raises" \/ ~run.io_ok

\* C12 witness: the staff detector failed internally, the model's boxes (a
\* note among them) were processed on the synthetic staff, and the run
\* returned success.
C12_Witness ==
    /\ pc = "returned"
    /\ run.cv.raises /\ run.image_ok /\ run.model = "loaded"
    /\ staff_groups = MockStaffLines
    /\ \E k \in 1..Len(symbols) : IsNote(symbols[k])
    /\ result.status = "success"

\* The two detections of the reference scenario, in the order of the list.
QuarterBox == [cls |-> 2, x1 |-> 150, y1 |-> 180, x2 |-> 150 + BoxW, y2 |-> 180 + BoxH]
HalfBox == [cls |-> 1, x1 |-> 200, y1 |-> 160, x2 |-> 200 + BoxW, y2 |-> 160 + BoxH]

\* The reference scenario: the staff is [100, 150, 200, 250, 300], the symbols
\* are a quarter note at box [150, 180, 20, 25] and a half note at box
\* [200, 160, 20, 25] (the mock data, or the same two boxes from the model),
\* the image is decoded and the MIDI file can be written.
ReferenceScenario ==
    /\ run.image_ok /\ run.io_ok
    /\ staff_groups = MockStaffLines
    /\ \/ run.model = "none"
       \/ run.model = "loaded" /\ run.boxes = <<QuarterBox, HalfBox>>

\* C13: a run of the reference scenario returns success with one measure that
\* holds the two notes, a symbol count of 2 and tempo 120, and its MIDI file
\* has exactly two notes: the first at beat 0 lasting 1 beat, the second at
\* beat 1 lasting 2 beats (one beat is 16 units).
C13_ReferenceScenario ==
    (pc = "returned" /\ ReferenceScenario) =>
        /\ result.status = "success"
        /\ result.measures = 1
        /\ Len(measures) = 1
        /\ Len(measures[1]) = 2
        /\ \A k \in 1..2 : IsNote(measures[1][k])
        /\ result.symbols_detected = 2
        /\ result.bpm = 120
        /\ midi.tempo = 120
        /\ Len(midi.notes) = 2
        /\ midi.notes[1].time = 0 /\ midi.notes[1].duration = 16
        /\ midi.notes[2].time = 16 /\ midi.notes[2].duration = 32

\* C13 witness: the scenario has run to its return on the two boxes of the
\* model, processed on the synthetic staff.
C13_Witness ==
    /\ pc = "returned"
    /\ ReferenceScenario
    /\ run.model = "loaded"
    /\ Len(symbols) = 2
    /\ result.status = "success"

\* The scan of SpecStaff, taken step by step, returns what group_staff_lines
\* as used by SpecAnalyze computes.
ScanAgreesWithOperator ==
    (pc = "done" /\ run = None) => staff_systems = group_staff_lines(lines)
====
